---- MODULE Spec2Model ----
(***************************************************************************)
(* The CRUX command/answer protocol of src/service/cmd.py (CmdMixin).      *)
(*                                                                         *)
(* Two services, A and B, hold one connection.  Reader "ra" is the input   *)
(* side of A (B and any other peer write to it), reader "rb" the input     *)
(* side of B.  Each service runs read_commands on its reader, callers      *)
(* use wait_for_cmd, wait_for_answer and send_cmd on A.                    *)
(*                                                                         *)
(* Time is abstracted: a timed wait owns a flag that the environment sets  *)
(* once its delay has elapsed (time.time() - begin >= timeout).            *)
(***************************************************************************)
EXTENDS Integers, Sequences, FiniteSets, TLC

VARIABLES
    wire,        \* wire[r]: every frame written so far to reader r, in order
    rd,          \* rd[r]: number of frames of wire[r] the loop has consumed
    pc,          \* pc[r]: position of read_commands on reader r
    mode,        \* mode[r]: flag of the header read last (local `flag`)
    commands,    \* self.commands: reader -> queue (exists, items)
    put_log,     \* history: every item ever put on the queue of reader r
    error_read,  \* number of calls of the error_read hook, per service
    error_write, \* number of calls of the error_write hook, per service
    answers,     \* self.answers: command id -> arguments, per service
    cmd_id,      \* self.cmd_id: next value of count(0), per service
    hnd,         \* hnd[r]: the handler the loop of r is awaiting
    invoked,     \* history: handler invocations of the loop of r, in order
    cancelled,   \* history: the loop task of r received a cancellation
    waiter,      \* wait_for_cmd calls on reader "ra"
    caller,      \* wait_for_answer calls of service A
    has_writer,  \* has_writer[r]: read_commands of r was given a writer
    faulted,     \* history: a handler of the loop of r raised an Exception
    sender,      \* send_cmd calls of service A
    tcall,       \* one wait_for_cmd call with a timeout, on a clock
    pipe,        \* a connection as bytes: what send_cmd wrote, what the
                 \* loop at the other end has read of it
    secret,      \* the keyring, and self.secret_key of each service
    asked        \* a call of Direction.from_name: its argument and result

loopVars == <<rd, pc, mode, has_writer, commands, put_log, hnd, invoked,
              cancelled, faulted>>
svcVars  == <<error_read, error_write, answers, cmd_id>>
callVars == <<sender, tcall, pipe, secret, asked>>
vars == <<wire, rd, pc, mode, commands, put_log, error_read, error_write,
          answers, cmd_id, hnd, invoked, cancelled, waiter, caller,
          has_writer, faulted, sender, tcall, pipe, secret, asked>>
coreVars == <<wire, loopVars, svcVars, waiter, caller, sender>>

---------------------------------------------------------------------------
(* Bounds *)

\* frames a foreign peer writes to one reader
MaxFrames == 2

\* largest command id a foreign peer uses
MaxPeerId == 1

\* calls of read_secret_key by one service
MaxKeyReads == 3

\* largest timeout of a wait_for_cmd call on the clock, in ticks of 0.05 s
MaxT == 14

---------------------------------------------------------------------------
(* The two ends of the connection *)

Services == {"A", "B"}
\* ra and rb are the two ends of the connection between A and B; rc is
\* the reader of a second connection of A, whose far end is a foreign peer
Readers == {"ra", "rb", "rc"}
Linked == {"ra", "rb"}

Owner(r) == IF r = "rb" THEN "B" ELSE "A"

\* the reader at the other end of the writer paired with reader r
WriterOf(r) == IF r = "ra" THEN "rb" ELSE "ra"

---------------------------------------------------------------------------
(* Python values *)

EmptyDict == "{}"

\* an unpickled object, as far as parse_and_process_command looks at it
Obj(isTuple, len, t0, t1, t2, keysStr, name, id, args) ==
    [isTuple |-> isTuple, len |-> len, t0 |-> t0, t1 |-> t1, t2 |-> t2,
     keysStr |-> keysStr, name |-> name, id |-> id, args |-> args]

CmdObj(name, id, args) ==
    Obj(TRUE, 3, "str", "int", "dict", TRUE, name, id, args)

\* an item of a command queue: a command tuple, or None (the close sentinel)
QueueCmd(name, id, args) ==
    [isNone |-> FALSE, name |-> name, id |-> id, args |-> args]

QueueNone == [isNone |-> TRUE, name |-> "", id |-> 0, args |-> EmptyDict]

NoAnswer == "absent"

---------------------------------------------------------------------------
(* Frames: the flag of the header, and what the payload holds *)

\* MessageMode values: UNVERIFIED, SIGNED, ENCRYPTED, SIGNED | ENCRYPTED
ModeValues == {1, 2, 4, 6}

SIGNED == 2

Frame(flag, auth, pk, obj) ==
    [flag |-> flag, auth |-> auth, pk |-> pk, obj |-> obj]

\* mode.compose(cmd_name, cmd_id, args) behind its header
ComposeFrame(m, name, id, args) == Frame(m, TRUE, "ok", CmdObj(name, id, args))

\* mode.get_content(data): "ok", or the exception raised
GetContent(m, f) ==
    IF m \in {4, 6} /\ ~f.auth THEN "InvalidToken"
    ELSE IF m \in {2, 6} /\ ~f.auth THEN "BadSignature"
    ELSE f.pk

\* the exceptions of get_content that read_commands handles
CaughtOnOpen(exc) == exc \in {"PickleError", "EOFError"}

\* MessageMode(flag) does not raise ValueError
ValidFlag(flag) == flag \in ModeValues

---------------------------------------------------------------------------
(* parse_and_process_command: the shape of a command *)

\* ValidCommand without the test of the keys of the dictionary
ValidCommand_AnyKeys(cmd) ==
    IF ~cmd.isTuple THEN FALSE
    ELSE IF cmd.len # 3 THEN FALSE
    ELSE IF cmd.t0 # "str" THEN FALSE
    ELSE IF cmd.t1 # "int" THEN FALSE
    ELSE IF cmd.t2 # "dict" THEN FALSE
    ELSE TRUE

ValidCommand(cmd) ==
    IF ~cmd.isTuple THEN FALSE
    ELSE IF cmd.len # 3 THEN FALSE
    ELSE IF cmd.t0 # "str" THEN FALSE
    ELSE IF cmd.t1 # "int" THEN FALSE
    ELSE IF cmd.t2 # "dict" THEN FALSE
    ELSE IF ~cmd.keysStr THEN FALSE
    ELSE TRUE

---------------------------------------------------------------------------
(* process_command: the handler of a command *)

\* handle_<name> methods of a service and of its parents, nearest first
ServiceChain(s) ==
    IF s = "A" THEN << {}, {"ping", "answer"} >>
    ELSE << {"ping"} >>

RECURSIVE FindHandler(_, _, _)
\* the level of the chain that has handle_<name>, 0 if none has
FindHandler(chain, level, name) ==
    IF level > Len(chain) THEN 0
    ELSE IF name \in chain[level] THEN level
    ELSE FindHandler(chain, level + 1, name)

\* HasHandler looking at the service only, not at its parents
HasHandler_OwnOnly(s, name) == name \in ServiceChain(s)[1]

\* getattr(service, "handle_<name>") walked up through service.parent
HasHandler(s, name) == FindHandler(ServiceChain(s), 1, name) # 0

\* (history, answered: the handler has called answer(); raised: that call
\* ended with an exception)
NoHandler ==
    [active |-> FALSE, id |-> 0, answered |-> FALSE, raised |-> FALSE]

Origin(id) ==
    [active |-> TRUE, id |-> id, answered |-> FALSE, raised |-> FALSE]

\* AfterLookup with the handler started but not awaited
AfterLookup_NotAwaited(found) == "header"

\* where read_commands is once process_command has found (or not) a handler:
\* the handler is awaited inside the iteration
AfterLookup(found) == IF found THEN "handler" ELSE "header"

---------------------------------------------------------------------------
(* send_cmd *)

\* how writer.write and writer.drain end
SendOutcomes == {"ok", "ConnectionError", "CancelledError", "Exception"}

\* how send_cmd ends: mode.compose and pack, called before the try, may
\* raise as well
SendCmdOutcomes == SendOutcomes \cup {"ComposeError"}

\* NextId taking a value of the counter even when an id is given
NextId_AlwaysNext(counter, explicit, id) ==
    [id |-> IF explicit THEN id ELSE counter, counter |-> counter + 1]

\* cmd_id = next(self.cmd_id) if cmd_id is None else cmd_id
NextId(counter, explicit, id) ==
    IF explicit THEN [id |-> id, counter |-> counter]
    ELSE [id |-> counter, counter |-> counter + 1]

\* the wire once send_cmd has written frame f to the writer paired with r
WireAfterSend(r, f, outcome) ==
    IF outcome = "ok" /\ r \in Linked
    THEN [wire EXCEPT ![WriterOf(r)] = Append(@, f)]
    ELSE wire

\* error_write once send_cmd of service s has ended with outcome
HookAfterSend(s, outcome) ==
    IF outcome = "ComposeError" THEN error_write
    ELSE IF outcome = "ok" THEN error_write
    ELSE [error_write EXCEPT ![s] = @ + 1]

\* an exception leaves send_cmd
SendRaises(outcome) == outcome \in {"ComposeError", "Exception"}

\* AnswerId taking a fresh id instead of the id of the origin
AnswerId_Fresh(origin) == origin.id + 1

\* the id answer() gives the command it sends
AnswerId(origin) == origin.id

---------------------------------------------------------------------------
(* Initial state *)

\* (history, noq: no queue of the reader existed when the timeout elapsed)
NoWaiter ==
    [pc |-> "idle", name |-> "", timed |-> FALSE, late |-> FALSE,
     res |-> "", args |-> EmptyDict, taken |-> << >>, missed |-> FALSE,
     noq |-> FALSE]

NoCaller ==
    [pc |-> "idle", id |-> 0, expired |-> FALSE, res |-> NoAnswer,
     early |-> NoAnswer]

\* a send_cmd call (history: explicit, outcome, hooked)
NoSender ==
    [pc |-> "idle", id |-> 0, explicit |-> FALSE, outcome |-> "",
     hooked |-> FALSE]

\* a wait_for_cmd call on a clock (times in ticks; found: when the call
\* saw the queue, budget: the timeout given to async_timeout)
NoTimedCall ==
    [pc |-> "idle", T |-> 0, appears |-> 0, now |-> 0, found |-> 0,
     budget |-> 0, res |-> ""]

\* init: self.secret_key = ""; the keyring holds no password (history,
\* reads: calls of read_secret_key; queries: calls of keyring.get_password;
\* setups: the keys MessageMode.setup was called with)
NoSecret ==
    [store |-> "None",
     key |-> [s \in Services |-> ""],
     reads |-> [s \in Services |-> 0],
     queries |-> [s \in Services |-> 0],
     setups |-> [s \in Services |-> << >>]]

\* no call of Direction.from_name yet
NotAsked ==
    [pc |-> "idle", name |-> [text |-> "", case |-> "lower"], res |-> ""]

\* a connection nothing was written to (history, sent: the mode and the
\* payload of every frame written; got: those the loop has recovered)
EmptyPipe ==
    [out |-> << >>, sent |-> << >>, pos |-> 0, pc |-> "header",
     flag |-> 0, size |-> 0, got |-> << >>]

Waiters == {"w1", "w2"}
Callers == {"q1", "q2"}
Senders == {"k1", "k2"}

Init ==
    /\ wire = [r \in Readers |-> << >>]
    /\ rd = [r \in Readers |-> 0]
    /\ pc = [r \in Readers |-> "idle"]
    /\ mode = [r \in Readers |-> 0]
    /\ commands = [r \in Readers |-> [exists |-> FALSE, items |-> << >>]]
    /\ put_log = [r \in Readers |-> << >>]
    /\ error_read = [s \in Services |-> 0]
    /\ error_write = [s \in Services |-> 0]
    /\ answers = [s \in Services |-> [i \in 0..MaxPeerId |-> NoAnswer]]
    /\ cmd_id = [s \in Services |-> 0]
    /\ hnd = [r \in Readers |-> NoHandler]
    /\ invoked = [r \in Readers |-> << >>]
    /\ cancelled = [r \in Readers |-> FALSE]
    /\ waiter = [w \in Waiters |-> NoWaiter]
    /\ caller = [q \in Callers |-> NoCaller]
    /\ has_writer = [r \in Readers |-> TRUE]
    /\ faulted = [r \in Readers |-> FALSE]
    /\ sender = [k \in Senders |-> NoSender]
    /\ tcall = NoTimedCall
    /\ pipe = EmptyPipe
    /\ secret = NoSecret
    /\ asked = NotAsked

---------------------------------------------------------------------------
(* read_commands *)

\* queue.put(item) on the queue of reader r
Put(r, item) ==
    /\ commands' = [commands EXCEPT ![r].items = Append(@, item)]
    /\ put_log' = [put_log EXCEPT ![r] = Append(@, item)]

CallErrorRead(r) ==
    error_read' = [error_read EXCEPT ![Owner(r)] = @ + 1]

\* read_commands(reader, writer) is called: the queue of the reader is
\* created if missing (with_writer: writer is not None)
StartReadCommands(r, with_writer) ==
    /\ pc[r] = "idle"
    /\ pc' = [pc EXCEPT ![r] = "header"]
    /\ has_writer' = [has_writer EXCEPT ![r] = with_writer]
    /\ commands' = [commands EXCEPT ![r].exists = TRUE]
    /\ UNCHANGED <<wire, rd, mode, put_log, hnd, invoked, cancelled, faulted,
                   svcVars, callVars, waiter, caller>>

ReadFailures ==
    {"ConnectionError", "CancelledError", "IncompleteReadError", "Exception"}

\* the except clauses of readexactly(INITIAL_PACKET_SIZE)
HeaderFailure(exc) ==
    IF exc = "ConnectionError" THEN [put |-> TRUE, hook |-> TRUE]
    ELSE IF exc = "CancelledError" THEN [put |-> TRUE, hook |-> FALSE]
    ELSE IF exc = "IncompleteReadError" THEN [put |-> TRUE, hook |-> FALSE]
    ELSE [put |-> FALSE, hook |-> TRUE]

\* the except clauses of readexactly(size)
PayloadFailure(exc) ==
    IF exc = "ConnectionError" THEN [put |-> TRUE, hook |-> TRUE]
    ELSE IF exc = "CancelledError" THEN [put |-> TRUE, hook |-> FALSE]
    ELSE IF exc = "IncompleteReadError" THEN [put |-> TRUE, hook |-> FALSE]
    ELSE [put |-> FALSE, hook |-> TRUE]

\* the loop returns after a failed read
StopAfter(r, eff, exc) ==
    /\ pc' = [pc EXCEPT ![r] = "stopped"]
    /\ IF eff.put THEN Put(r, QueueNone) ELSE UNCHANGED <<commands, put_log>>
    /\ IF eff.hook THEN CallErrorRead(r) ELSE UNCHANGED error_read
    /\ cancelled' = [cancelled EXCEPT ![r] = @ \/ exc = "CancelledError"]
    /\ UNCHANGED faulted

\* readexactly(INITIAL_PACKET_SIZE) raises exc
ReadHeaderFails(r, exc) ==
    /\ pc[r] = "header"
    /\ exc = "IncompleteReadError" => rd[r] = Len(wire[r])
    /\ StopAfter(r, HeaderFailure(exc), exc)
    /\ UNCHANGED <<wire, rd, mode, has_writer, hnd, invoked, error_write,
                   answers, cmd_id, callVars, waiter, caller>>

\* AfterHeader without the ValueError of MessageMode(flag)
AfterHeader_NoCheck(flag) ==
    [pc |-> "payload", put |-> FALSE, hook |-> FALSE]

\* what read_commands does on a header it has unpacked: the payload is
\* read next, or, on ValueError, the loop closes the queue and returns
AfterHeader(flag) ==
    IF ValidFlag(flag)
    THEN [pc |-> "payload", put |-> FALSE, hook |-> FALSE]
    ELSE [pc |-> "stopped", put |-> TRUE, hook |-> TRUE]

\* the header of the next frame is read, unpacked, and its flag checked
ReadHeader(r) ==
    /\ pc[r] = "header"
    /\ rd[r] < Len(wire[r])
    /\ LET flag == wire[r][rd[r] + 1].flag
           eff == AfterHeader(flag)
       IN /\ pc' = [pc EXCEPT ![r] = eff.pc]
          /\ mode' = [mode EXCEPT ![r] = flag]
          /\ IF eff.put THEN Put(r, QueueNone)
             ELSE UNCHANGED <<commands, put_log>>
          /\ IF eff.hook THEN CallErrorRead(r) ELSE UNCHANGED error_read
    /\ UNCHANGED <<wire, rd, has_writer, hnd, invoked, cancelled, faulted,
                   error_write, answers, cmd_id, callVars, waiter, caller>>

\* readexactly(size) raises exc
ReadPayloadFails(r, exc) ==
    /\ pc[r] = "payload"
    /\ exc = "IncompleteReadError" => rd[r] + 1 = Len(wire[r])
    /\ StopAfter(r, PayloadFailure(exc), exc)
    /\ UNCHANGED <<wire, rd, mode, has_writer, hnd, invoked, error_write,
                   answers, cmd_id, callVars, waiter, caller>>

\* ProcessCommand with the handler looked up before the test on "answer"
ProcessCommand_HandlerFirst(s, name) ==
    IF HasHandler(s, name)
    THEN [store |-> FALSE, call |-> TRUE, next |-> AfterLookup(TRUE)]
    ELSE [store |-> name = "answer", call |-> FALSE, next |-> "header"]

\* process_command: what becomes of a valid command named name
ProcessCommand(s, name) ==
    IF name = "answer"
    THEN [store |-> TRUE, call |-> FALSE, next |-> "header"]
    ELSE [store |-> FALSE, call |-> HasHandler(s, name),
          next |-> AfterLookup(HasHandler(s, name))]

\* ParseAndProcessCommand with no put for a command that has a handler
ParseAndProcessCommand_DispatchOnly(s, cmd) ==
    IF ValidCommand(cmd)
    THEN [put |-> ~HasHandler(s, cmd.name)] @@ ProcessCommand(s, cmd.name)
    ELSE [put |-> FALSE, store |-> FALSE, call |-> FALSE, next |-> "header"]

\* parse_and_process_command: what becomes of the unpickled object
ParseAndProcessCommand(s, cmd) ==
    IF ValidCommand(cmd)
    THEN [put |-> TRUE] @@ ProcessCommand(s, cmd.name)
    ELSE [put |-> FALSE, store |-> FALSE, call |-> FALSE, next |-> "header"]

\* history: an answer for a pending wait_for_answer call of service A is
\* stored before the timeout of that call has elapsed
NoteEarly(s, stored, cmd) ==
    [q \in Callers |->
        IF /\ stored /\ s = "A"
           /\ caller[q].pc \in {"sent", "sleep"}
           /\ caller[q].id = cmd.id
           /\ ~caller[q].expired
        THEN [caller[q] EXCEPT !.early = cmd.args]
        ELSE caller[q]]

\* the payload is read and opened, the command parsed and dispatched
ReadPayload(r) ==
    /\ pc[r] = "payload"
    /\ LET f == wire[r][rd[r] + 1]
           s == Owner(r)
           opened == GetContent(mode[r], f)
           eff == ParseAndProcessCommand(s, f.obj)
           cmd == QueueCmd(f.obj.name, f.obj.id, f.obj.args)
       IN /\ rd' = [rd EXCEPT ![r] = @ + 1]
          /\ IF opened # "ok"
             THEN /\ IF CaughtOnOpen(opened)
                     THEN /\ CallErrorRead(r)
                          /\ pc' = [pc EXCEPT ![r] = "header"]
                     ELSE /\ pc' = [pc EXCEPT ![r] = "escaped"]
                          /\ UNCHANGED error_read
                  /\ UNCHANGED <<commands, put_log, answers, hnd, invoked>>
             ELSE /\ pc' = [pc EXCEPT ![r] = eff.next]
                  /\ IF eff.put THEN Put(r, cmd)
                     ELSE UNCHANGED <<commands, put_log>>
                  /\ answers' = IF eff.store
                                THEN [answers EXCEPT ![s][cmd.id] = cmd.args]
                                ELSE answers
                  /\ hnd' = IF eff.call
                            THEN [hnd EXCEPT ![r] = Origin(cmd.id)]
                            ELSE hnd
                  /\ invoked' = IF eff.call
                                THEN [invoked EXCEPT ![r] = Append(@, cmd)]
                                ELSE invoked
                  /\ UNCHANGED error_read
          /\ caller' = NoteEarly(s, opened = "ok" /\ eff.store, cmd)
    /\ UNCHANGED <<wire, mode, has_writer, cancelled, faulted, error_write,
                   cmd_id, callVars, waiter>>

\* how the send_cmd call of answer() ends, outcome being how write and
\* drain of a real writer end: answer() warns that origin.writer is None
\* and calls send_cmd all the same, where None.write raises AttributeError
AnswerOutcome(with_writer, outcome) ==
    IF with_writer THEN outcome ELSE "Exception"

\* the awaited handler calls answer(origin, args)
HandlerAnswers(r, args, outcome) ==
    /\ pc[r] = "handler"
    /\ hnd[r].active /\ ~hnd[r].answered
    /\ LET ended == AnswerOutcome(has_writer[r], outcome)
       IN /\ wire' = WireAfterSend(r,
                   ComposeFrame(SIGNED, "answer", AnswerId(hnd[r]), args),
                   ended)
          /\ error_write' = HookAfterSend(Owner(r), ended)
          /\ hnd' = [hnd EXCEPT ![r].answered = TRUE,
                                ![r].raised = SendRaises(ended)]
    /\ UNCHANGED <<rd, pc, mode, has_writer, commands, put_log, invoked,
                   cancelled, faulted, error_read, answers, cmd_id, callVars,
                   waiter, caller>>

HandlerOutcomes == {"return", "Exception", "CancelledError"}

\* AfterHandler without the `except Exception` clause
AfterHandler_Uncaught(outcome) ==
    IF outcome = "CancelledError" THEN "header"
    ELSE IF outcome = "Exception" THEN "escaped"
    ELSE "header"

\* where read_commands is once the awaited handler has ended: the
\* except clauses of process_command around `await method(...)`
AfterHandler(outcome) ==
    IF outcome = "CancelledError" THEN "header"
    ELSE IF outcome = "Exception" THEN "header"
    ELSE "header"

\* the awaited handler returns or raises; process_command returns
HandlerEnds(r, outcome) ==
    /\ pc[r] = "handler"
    /\ pc' = [pc EXCEPT ![r] = AfterHandler(outcome)]
    /\ hnd' = [hnd EXCEPT ![r] = NoHandler]
    /\ cancelled' = [cancelled EXCEPT ![r] = @ \/ outcome = "CancelledError"]
    /\ faulted' = [faulted EXCEPT ![r] = @ \/ outcome = "Exception"]
    /\ UNCHANGED <<wire, rd, mode, has_writer, commands, put_log, invoked,
                   svcVars, callVars, waiter, caller>>

---------------------------------------------------------------------------
(* wait_for_cmd, on reader "ra" *)

\* Matches without the "*" wildcard
Matches_NoWildcard(cmd_name, received) == received.name = cmd_name

\* the test of a received command against the awaited name
Matches(cmd_name, received) == cmd_name = "*" \/ received.name = cmd_name

Return(w, res, args) ==
    [waiter[w] EXCEPT !.pc = "done", !.res = res, !.args = args]

\* wait_for_cmd(reader, name, timeout) is called; timed: timeout is not None
WaitForCmd(w, name, timed) ==
    /\ waiter[w].pc = "idle"
    /\ waiter' = [waiter EXCEPT ![w] =
           [@ EXCEPT !.name = name, !.timed = timed,
                     !.pc = IF commands["ra"].exists THEN "get" ELSE "poll"]]
    /\ UNCHANGED <<wire, loopVars, svcVars, callVars, caller>>

\* timeout seconds have gone by since wait_for_cmd was called
WaitDelayElapses(w) ==
    /\ waiter[w].pc = "poll"
    /\ waiter[w].timed /\ ~waiter[w].late
    /\ waiter' = [waiter EXCEPT ![w].late = TRUE,
                                ![w].noq = ~commands["ra"].exists]
    /\ UNCHANGED <<wire, loopVars, svcVars, callVars, caller>>

\* AfterPoll with the test of the timeout before the test of the queue
AfterPoll_TimeoutFirst(exists, timed, late) ==
    IF timed /\ late THEN "none"
    ELSE IF exists THEN "get"
    ELSE "poll"

\* the condition of the polling loop and the `if queue is None` after it
AfterPoll(exists, timed, late) ==
    IF exists THEN "get"
    ELSE IF timed /\ late THEN "none"
    ELSE "poll"

\* asyncio.sleep(0.1) is over: the queue of the reader is looked up again
WaitPollWakes(w) ==
    /\ waiter[w].pc = "poll"
    /\ LET to == AfterPoll(commands["ra"].exists, waiter[w].timed,
                           waiter[w].late)
       IN waiter' =
            IF to = "none"
            THEN [waiter EXCEPT ![w] = Return(w, "(None, {})", EmptyDict)]
            ELSE [waiter EXCEPT ![w].pc = to]
    /\ UNCHANGED <<wire, loopVars, svcVars, callVars, caller>>

\* what wait_for_cmd does with an item it got from the queue:
\* the loop `while received := await queue.get()` ends on None
AfterGet(cmd_name, received) ==
    IF received.isNone THEN [pc |-> "done", res |-> "None", args |-> EmptyDict]
    ELSE IF Matches(cmd_name, received)
         THEN [pc |-> "done", res |-> "(True, args)", args |-> received.args]
         ELSE [pc |-> "get", res |-> "", args |-> EmptyDict]

\* queue.get() hands the first item of the queue to the call
\* (history, missed: the call was waiting on the queue when another call
\* took the close sentinel)
WaitGet(w) ==
    /\ waiter[w].pc = "get"
    /\ commands["ra"].items # << >>
    /\ LET received == Head(commands["ra"].items)
           eff == AfterGet(waiter[w].name, received)
       IN waiter' = [v \in Waiters |->
              IF v = w
              THEN [waiter[v] EXCEPT !.pc = eff.pc, !.res = eff.res,
                                     !.args = eff.args,
                                     !.taken = Append(@, received)]
              ELSE [waiter[v] EXCEPT !.missed =
                        @ \/ (received.isNone /\ waiter[v].pc = "get")]]
    /\ commands' = [commands EXCEPT !["ra"].items = Tail(@)]
    /\ UNCHANGED <<wire, rd, pc, mode, has_writer, put_log, hnd, invoked,
                   cancelled, faulted, svcVars, callVars, caller>>

\* AfterWaitFault with `except asyncio.CancelledError` only
AfterWaitFault_CancelOnly(exc) ==
    IF exc = "CancelledError" THEN "(False, {})" ELSE "None"

\* the result of wait_for_cmd when exc is raised while it waits on the
\* queue: the except clauses of the try around queue.get()
AfterWaitFault(exc) ==
    IF exc \in {"CancelledError", "TimeoutError"} THEN "(False, {})"
    ELSE "None"

\* async_timeout(timeout) expires while the call waits on the queue
WaitTimesOut(w) ==
    /\ waiter[w].pc = "get"
    /\ waiter[w].timed
    /\ waiter' = [waiter EXCEPT ![w] =
           Return(w, AfterWaitFault("TimeoutError"), EmptyDict)]
    /\ UNCHANGED <<wire, loopVars, svcVars, callVars, caller>>

\* the task of the call is cancelled
WaitCancelled(w) ==
    /\ waiter[w].pc \in {"poll", "get"}
    /\ waiter' = [waiter EXCEPT ![w] =
           IF waiter[w].pc = "get"
           THEN Return(w, AfterWaitFault("CancelledError"), EmptyDict)
           ELSE Return(w, "CancelledError", EmptyDict)]
    /\ UNCHANGED <<wire, loopVars, svcVars, callVars, caller>>

WaitNames == {"*", "ping"}

WaitCalls(w) ==
    \/ \E n \in WaitNames, t \in BOOLEAN : WaitForCmd(w, n, t)
    \/ WaitDelayElapses(w)
    \/ WaitPollWakes(w)
    \/ WaitGet(w)
    \/ WaitTimesOut(w)
    \/ WaitCancelled(w)

---------------------------------------------------------------------------
(* wait_for_cmd on a clock: one call, times in ticks of 0.05 s *)

\* asyncio.sleep(0.1)
PollTicks == 2

\* max(timeout, 0.5)
MinTicks == 10

MaxOf(a, b) == IF a >= b THEN a ELSE b

\* Budget without the time already spent taken off
Budget_NoSubtract(T, elapsed) == MaxOf(T, MinTicks)

\* timeout = timeout - (time.time() - begin); timeout = max(timeout, 0.5)
Budget(T, elapsed) == MaxOf(T - elapsed, MinTicks)

\* wait_for_cmd(reader, name, T) is called at time 0 of the clock; the
\* queue of the reader exists from time `appears` on
TimedCall(T, appears) ==
    /\ tcall.pc = "idle"
    /\ tcall' = [tcall EXCEPT !.pc = "poll", !.T = T, !.appears = appears]
    /\ UNCHANGED <<coreVars, pipe, secret, asked>>

\* the condition of the polling loop is evaluated at time now
TimedPoll ==
    /\ tcall.pc = "poll"
    /\ LET to == AfterPoll(tcall.appears <= tcall.now, TRUE,
                           tcall.now >= tcall.T)
       IN tcall' =
            IF to = "none"
            THEN [tcall EXCEPT !.pc = "done", !.res = "(None, {})"]
            ELSE IF to = "get"
            THEN [tcall EXCEPT !.pc = "get", !.found = tcall.now,
                               !.budget = Budget(tcall.T, tcall.now)]
            ELSE [tcall EXCEPT !.now = @ + PollTicks]
    /\ UNCHANGED <<coreVars, pipe, secret, asked>>

\* the awaited command is put on the queue d ticks after the call began
\* to wait on it, before async_timeout expires
TimedCommand(d) ==
    /\ tcall.pc = "get"
    /\ d < tcall.budget
    /\ tcall' = [tcall EXCEPT !.pc = "done", !.now = @ + d,
                              !.res = "(True, args)"]
    /\ UNCHANGED <<coreVars, pipe, secret, asked>>

\* async_timeout(timeout) expires
TimedExpires ==
    /\ tcall.pc = "get"
    /\ tcall' = [tcall EXCEPT !.pc = "done", !.now = @ + tcall.budget,
                              !.res = AfterWaitFault("TimeoutError")]
    /\ UNCHANGED <<coreVars, pipe, secret, asked>>

NextTimed ==
    \/ \E T \in 0..MaxT, a \in 0..(MaxT + PollTicks) : TimedCall(T, a)
    \/ TimedPoll
    \/ \E d \in 0..(MaxT + MinTicks) : TimedCommand(d)
    \/ TimedExpires

SpecTimed == Init /\ [][NextTimed]_vars

---------------------------------------------------------------------------
(* Frames as bytes: pack("!bQ", mode, length) followed by the payload *)

\* calcsize("!bQ"): one byte of mode, eight bytes of length
INITIAL_PACKET_SIZE == 9

RECURSIVE BigEndian(_, _)
\* the k low-order bytes of n, most significant first
BigEndian(n, k) ==
    IF k = 0 THEN << >>
    ELSE Append(BigEndian(n \div 256, k - 1), n % 256)

RECURSIVE FromBigEndian(_)
FromBigEndian(bytes) ==
    IF bytes = << >> THEN 0
    ELSE 256 * FromBigEndian(SubSeq(bytes, 1, Len(bytes) - 1))
         + bytes[Len(bytes)]

\* format "b": a signed byte
SignedByte(v) == v % 256

FromSignedByte(b) == IF b >= 128 THEN b - 256 ELSE b

\* PackHeader with the length of the whole frame in the length field
PackHeader_WholeFrame(flag, size) ==
    << SignedByte(flag) >> \o BigEndian(size + INITIAL_PACKET_SIZE, 8)

\* pack(INITIAL_PACKET_FORMAT_STRING, mode.value, len(encoded))
PackHeader(flag, size) == << SignedByte(flag) >> \o BigEndian(size, 8)

\* unpack(INITIAL_PACKET_FORMAT_STRING, initial_packet)
UnpackHeader(packet) ==
    [flag |-> FromSignedByte(packet[1]),
     size |-> FromBigEndian(SubSeq(packet, 2, INITIAL_PACKET_SIZE))]

\* encoded messages, as bytes: empty, and with bytes that read as a mode
\* or as a length
Payloads == { << >>, << 2 >>, << 0, 6 >>, << 1, 0, 9 >> }

\* Stream without the encoded message
Stream_HeaderOnly(initial_packet, encoded) == initial_packet

\* stream = initial_packet + encoded
Stream(initial_packet, encoded) == initial_packet \o encoded

\* send_cmd writes initial_packet + encoded in one write
PipeSend(m, encoded) ==
    /\ Len(pipe.sent) < MaxFrames
    /\ pipe' = [pipe EXCEPT
           !.out = @ \o Stream(PackHeader(m, Len(encoded)), encoded),
           !.sent = Append(@, [mode |-> m, data |-> encoded])]
    /\ UNCHANGED <<coreVars, tcall, secret, asked>>

\* readexactly(INITIAL_PACKET_SIZE) returns; the header is unpacked and
\* its flag checked
PipeReadHeader ==
    /\ pipe.pc = "header"
    /\ pipe.pos + INITIAL_PACKET_SIZE <= Len(pipe.out)
    /\ LET packet == SubSeq(pipe.out, pipe.pos + 1,
                            pipe.pos + INITIAL_PACKET_SIZE)
           head == UnpackHeader(packet)
       IN pipe' = [pipe EXCEPT !.pos = @ + INITIAL_PACKET_SIZE,
                               !.flag = head.flag, !.size = head.size,
                               !.pc = AfterHeader(head.flag).pc]
    /\ UNCHANGED <<coreVars, tcall, secret, asked>>

\* readexactly(size) returns: the payload goes to mode.get_content
PipeReadPayload ==
    /\ pipe.pc = "payload"
    /\ pipe.pos + pipe.size <= Len(pipe.out)
    /\ LET data == SubSeq(pipe.out, pipe.pos + 1, pipe.pos + pipe.size)
       IN pipe' = [pipe EXCEPT
              !.pos = @ + pipe.size, !.pc = "header",
              !.got = Append(@, [mode |-> pipe.flag, data |-> data])]
    /\ UNCHANGED <<coreVars, tcall, secret, asked>>

NextFrames ==
    \/ \E m \in ModeValues, encoded \in Payloads : PipeSend(m, encoded)
    \/ PipeReadHeader
    \/ PipeReadPayload

SpecFrames == Init /\ [][NextFrames]_vars

---------------------------------------------------------------------------
(* Concurrent send_cmd calls on one writer, byte by byte: a call runs
   without suspension up to `await writer.drain()` *)

\* send_cmd(writer, name, args, mode=m) is called and runs up to its first
\* await: the id is taken, the stream built and handed to writer.write,
\* which buffers it (outcome "ok") or raises
SendWrites(k, m, encoded, outcome) ==
    /\ sender[k].pc = "idle"
    /\ LET n == NextId(cmd_id["A"], FALSE, 0)
           stream == Stream(PackHeader(m, Len(encoded)), encoded)
       IN /\ cmd_id' = [cmd_id EXCEPT !["A"] = n.counter]
          /\ pipe' = IF outcome = "ok"
                     THEN [pipe EXCEPT
                              !.out = @ \o stream,
                              !.sent = Append(@, [mode |-> m,
                                                  data |-> encoded])]
                     ELSE pipe
          /\ error_write' = HookAfterSend("A", outcome)
          /\ sender' = [sender EXCEPT ![k] =
                 [pc |-> IF outcome = "ok" THEN "drain"
                         ELSE IF SendRaises(outcome) THEN "raised"
                         ELSE "done",
                  id |-> n.id, explicit |-> FALSE, outcome |-> outcome,
                  hooked |-> outcome # "ok"]]
    /\ UNCHANGED <<wire, loopVars, error_read, answers, waiter, caller,
                   tcall, secret, asked>>

\* `await writer.drain()` returns or raises: the call ends
SendDrains(k, outcome) ==
    /\ sender[k].pc = "drain"
    /\ error_write' = HookAfterSend("A", outcome)
    /\ sender' = [sender EXCEPT ![k] =
           [@ EXCEPT !.pc = IF SendRaises(outcome) THEN "raised" ELSE "done",
                     !.outcome = outcome,
                     !.hooked = outcome # "ok"]]
    /\ UNCHANGED <<wire, loopVars, error_read, answers, cmd_id, waiter,
                   caller, tcall, pipe, secret, asked>>

NextWriters ==
    \/ \E k \in Senders, m \in ModeValues, encoded \in Payloads,
          o \in SendOutcomes : SendWrites(k, m, encoded, o)
    \/ \E k \in Senders, o \in SendOutcomes : SendDrains(k, o)
    \/ PipeReadHeader
    \/ PipeReadPayload

SpecWriters == Init /\ [][NextWriters]_vars

---------------------------------------------------------------------------
(* read_secret_key *)

\* what keyring.get_password may return: None, or a password
Passwords == {"None", "", "k1", "k2"}

\* `not value` of Python, for None and strings
Falsy(value) == value \in {"None", ""}

\* NeedsFetch without the early return
NeedsFetch_Always(key) == TRUE

\* `if self.secret_key: return`
NeedsFetch(key) == Falsy(key)

\* `if not self.secret_key: return`, else MessageMode.setup is called
CallsSetup(fetched) == ~Falsy(fetched)

\* somebody stores, changes or deletes the password in the keyring
KeyringSet(value) ==
    /\ value # secret.store
    /\ secret' = [secret EXCEPT !.store = value]
    /\ UNCHANGED <<coreVars, tcall, pipe, asked>>

\* service s calls read_secret_key()
ReadSecretKey(s) ==
    /\ secret.reads[s] < MaxKeyReads
    /\ secret' =
         IF NeedsFetch(secret.key[s])
         THEN [secret EXCEPT
                 !.reads[s] = @ + 1,
                 !.queries[s] = @ + 1,
                 !.key[s] = secret.store,
                 !.setups[s] = IF CallsSetup(secret.store)
                               THEN Append(@, secret.store) ELSE @]
         ELSE [secret EXCEPT !.reads[s] = @ + 1]
    /\ UNCHANGED <<coreVars, tcall, pipe, asked>>

NextSecret ==
    \/ \E value \in Passwords : KeyringSet(value)
    \/ \E s \in Services : ReadSecretKey(s)

SpecSecret == Init /\ [][NextSecret]_vars

---------------------------------------------------------------------------
(* data/direction.py: Direction.from_name *)

\* the members of Direction other than INVALID, with their values
DirectionValue ==
    [EAST |-> "east", SOUTHEAST |-> "southeast", SOUTH |-> "south",
     SOUTHWEST |-> "southwest", WEST |-> "west", NORTHWEST |-> "northwest",
     NORTH |-> "north", NORTHEAST |-> "northeast", DOWN |-> "down",
     UP |-> "up"]

\* _ALIASES, in the order of the dictionary
ALIASES ==
    << [direction |-> "EAST", aliases |-> <<"east", "e">>],
       [direction |-> "SOUTHEAST",
        aliases |-> <<"south-east", "southeast", "se", "s-e">>],
       [direction |-> "SOUTH", aliases |-> <<"south", "s">>],
       [direction |-> "SOUTHWEST",
        aliases |-> <<"south-west", "souhwest", "sw", "s-w">>],
       [direction |-> "WEST", aliases |-> <<"west", "w">>],
       [direction |-> "NORTHWEST",
        aliases |-> <<"north-east", "northeast", "ne", "n-e">>],
       [direction |-> "NORTH", aliases |-> <<"north", "n">>],
       [direction |-> "NORTHEAST",
        aliases |-> <<"north-east", "northeast", "ne", "n-e">>],
       [direction |-> "DOWN", aliases |-> <<"down", "d">>],
       [direction |-> "UP", aliases |-> <<"up", "u">>] >>

\* a string is its text in lower case and the case it is written in
CaseOf == {"lower", "Capitalized", "UPPER"}

\* str.lower()
Lower(name) == [name EXCEPT !.case = "lower"]

\* `name in aliases`: the aliases are written in lower case
InAliases(name, aliases) ==
    \E i \in 1..Len(aliases) :
        name = [text |-> aliases[i], case |-> "lower"]

RECURSIVE FirstMatch(_, _)
\* the loop over _ALIASES.items(), from entry i on
FirstMatch(name, i) ==
    IF i > Len(ALIASES) THEN "ValueError"
    ELSE IF InAliases(name, ALIASES[i].aliases) THEN ALIASES[i].direction
    ELSE FirstMatch(name, i + 1)

\* Direction.from_name(name): a member of Direction, or ValueError
FromName(name) == FirstMatch(Lower(name), 1)

\* the names from_name is asked: the values of the members, the aliases,
\* and names of no direction
AskedTexts ==
    {DirectionValue[d] : d \in DOMAIN DirectionValue}
    \cup UNION {{ALIASES[i].aliases[j] : j \in 1..Len(ALIASES[i].aliases)} :
                  i \in 1..Len(ALIASES)}
    \cup {"", "x", "invalid", "north-west"}

\* from_name(name) is called
AskDirection(name) ==
    /\ asked.pc = "idle"
    /\ asked' = [asked EXCEPT !.pc = "called", !.name = name]
    /\ UNCHANGED <<coreVars, tcall, pipe, secret>>

\* from_name returns or raises
ResolveDirection ==
    /\ asked.pc = "called"
    /\ asked' = [asked EXCEPT !.pc = "done", !.res = FromName(asked.name)]
    /\ UNCHANGED <<coreVars, tcall, pipe, secret>>

NextDirection ==
    \/ \E t \in AskedTexts, c \in CaseOf :
           AskDirection([text |-> t, case |-> c])
    \/ ResolveDirection

SpecDirection == Init /\ [][NextDirection]_vars

---------------------------------------------------------------------------
(* wait_for_answer, called on service A *)

PyNone == "None"

\* self.answers.pop(cmd_id, None)
Pop(table, id) ==
    IF id \notin DOMAIN table THEN PyNone
    ELSE IF table[id] = NoAnswer THEN PyNone
    ELSE table[id]

\* AfterSleep reading the entry with get() instead of pop()
AfterSleep_KeepsEntry(expired, table, id) ==
    IF expired THEN [pc |-> "done", res |-> PyNone, pop |-> FALSE]
    ELSE IF Pop(table, id) # PyNone
         THEN [pc |-> "done", res |-> Pop(table, id), pop |-> FALSE]
         ELSE [pc |-> "sleep", res |-> NoAnswer, pop |-> FALSE]

\* how the loop of wait_for_answer goes on when asyncio.sleep(0.05) is over
AfterSleep(expired, table, id) ==
    IF expired THEN [pc |-> "done", res |-> PyNone, pop |-> FALSE]
    ELSE IF Pop(table, id) # PyNone
         THEN [pc |-> "done", res |-> Pop(table, id), pop |-> TRUE]
         ELSE [pc |-> "sleep", res |-> NoAnswer, pop |-> FALSE]

\* wait_for_answer(writer, name, args) is called: the id is taken from the
\* counter and the command is sent
WaitForAnswer(q, name, args, outcome) ==
    /\ caller[q].pc = "idle"
    /\ cmd_id' = [cmd_id EXCEPT !["A"] = @ + 1]
    /\ wire' = WireAfterSend("ra",
                   ComposeFrame(SIGNED, name, cmd_id["A"], args), outcome)
    /\ error_write' = HookAfterSend("A", outcome)
    /\ caller' = [caller EXCEPT ![q] =
           [@ EXCEPT !.id = cmd_id["A"],
                     !.pc = IF SendRaises(outcome) THEN "raised" ELSE "sent"]]
    /\ UNCHANGED <<loopVars, error_read, answers, waiter, callVars>>

\* timeout seconds have gone by since wait_for_answer was called
AnswerDelayElapses(q) ==
    /\ caller[q].pc \in {"sent", "sleep"}
    /\ ~caller[q].expired
    /\ caller' = [caller EXCEPT ![q].expired = TRUE]
    /\ UNCHANGED <<wire, loopVars, svcVars, callVars, waiter>>

\* send_cmd has returned: the table is looked up for the first time
AnswerPoll(q) ==
    /\ caller[q].pc = "sent"
    /\ LET r == Pop(answers["A"], caller[q].id)
       IN IF r # PyNone
          THEN /\ caller' = [caller EXCEPT ![q].pc = "done", ![q].res = r]
               /\ answers' = [answers EXCEPT !["A"][caller[q].id] = NoAnswer]
          ELSE /\ caller' = [caller EXCEPT ![q].pc = "sleep"]
               /\ UNCHANGED answers
    /\ UNCHANGED <<wire, loopVars, error_read, error_write, cmd_id, callVars,
                   waiter>>

\* asyncio.sleep(0.05) is over: timeout check, then the next lookup
AnswerWakes(q) ==
    /\ caller[q].pc = "sleep"
    /\ LET eff == AfterSleep(caller[q].expired, answers["A"], caller[q].id)
       IN /\ caller' = [caller EXCEPT ![q].pc = eff.pc, ![q].res = eff.res]
          /\ answers' = IF eff.pop
                        THEN [answers EXCEPT !["A"][caller[q].id] = NoAnswer]
                        ELSE answers
    /\ UNCHANGED <<wire, loopVars, error_read, error_write, cmd_id, callVars,
                   waiter>>

\* ids a caller of send_cmd passes as cmd_id
ExplicitIds == 0..MaxPeerId

\* send_cmd(writer, name, args, cmd_id) is called on service A, for the
\* writer paired with reader "ra" (explicit: cmd_id is not None)
SendCmd(k, name, args, explicit, id, outcome) ==
    /\ sender[k].pc = "idle"
    /\ LET n == NextId(cmd_id["A"], explicit, id)
       IN /\ cmd_id' = [cmd_id EXCEPT !["A"] = n.counter]
          /\ wire' = WireAfterSend("ra",
                         ComposeFrame(SIGNED, name, n.id, args), outcome)
          /\ error_write' = HookAfterSend("A", outcome)
          /\ sender' = [sender EXCEPT ![k] =
                 [pc |-> IF SendRaises(outcome) THEN "raised" ELSE "done",
                  id |-> n.id, explicit |-> explicit, outcome |-> outcome,
                  hooked |-> error_write' # error_write]]
    /\ UNCHANGED <<loopVars, error_read, answers, waiter, caller, tcall,
                   pipe, secret, asked>>

SendCalls(k, names, args) ==
    \E n \in names, a \in args, e \in BOOLEAN, i \in ExplicitIds,
       o \in SendCmdOutcomes : SendCmd(k, n, a, e, i, o)

AnswerCalls(q, names, args) ==
    \/ \E n \in names, a \in args, o \in SendOutcomes :
           WaitForAnswer(q, n, a, o)
    \/ AnswerDelayElapses(q)
    \/ AnswerPoll(q)
    \/ AnswerWakes(q)

---------------------------------------------------------------------------
(* A foreign peer *)

InvalidObjects ==
    { Obj(FALSE, 0, "", "", "", FALSE, "", 0, EmptyDict),
      Obj(TRUE, 2, "str", "int", "", FALSE, "ping", 0, EmptyDict),
      Obj(TRUE, 3, "bytes", "int", "dict", TRUE, "answer", 0, "{a}"),
      Obj(TRUE, 3, "str", "str", "dict", TRUE, "ping", 0, "{a}"),
      Obj(TRUE, 3, "str", "int", "list", FALSE, "ping", 0, "{a}"),
      Obj(TRUE, 3, "str", "int", "dict", FALSE, "answer", 0, "{a}") }

CommandFrames(names, ids, args) ==
    { Frame(SIGNED, TRUE, "ok", CmdObj(n, i, a)) :
          n \in names, i \in ids, a \in args }

\* everything a peer may write
PeerFrames ==
    CommandFrames({"ping"}, 0..MaxPeerId, {"{a}"})
    \cup CommandFrames({"answer", "lost"}, {0}, {"{a}"})
    \cup { Frame(1, TRUE, "ok", o) : o \in InvalidObjects }
    \cup { Frame(3, TRUE, "ok", CmdObj("ping", 0, "{a}")) }
    \cup { Frame(m, FALSE, "ok", CmdObj("ping", 0, "{a}")) : m \in {2, 4} }
    \cup { Frame(1, TRUE, e, CmdObj("ping", 0, "{a}")) :
               e \in {"PickleError", "EOFError", "AttributeError"} }

PeerSend(r, frames) ==
    /\ Len(wire[r]) < MaxFrames
    /\ \E f \in frames : wire' = [wire EXCEPT ![r] = Append(@, f)]
    /\ UNCHANGED <<loopVars, svcVars, callVars, waiter, caller>>

---------------------------------------------------------------------------
(* The Reader Loop of A, fed by an arbitrary peer *)

\* read_commands up to the dispatch, with the read failures of `failures`
LoopSteps(r, failures) ==
    \/ StartReadCommands(r, TRUE)
    \/ ReadHeader(r)
    \/ \E exc \in failures : ReadHeaderFails(r, exc)
    \/ ReadPayload(r)
    \/ \E exc \in failures : ReadPayloadFails(r, exc)

\* read_commands with handlers that may answer with one of `replies`
ReaderLoop(r, replies) ==
    \/ LoopSteps(r, ReadFailures)
    \/ \E a \in replies, o \in SendOutcomes : HandlerAnswers(r, a, o)
    \/ \E o \in HandlerOutcomes : HandlerEnds(r, o)

Next ==
    \/ PeerSend("ra", PeerFrames)
    \/ ReaderLoop("ra", {"{a}"})

Spec == Init /\ [][Next]_vars

---------------------------------------------------------------------------
(* wait_for_cmd calls on a connection fed by a peer that sends commands *)

WaitFrames ==
    CommandFrames({"ping"}, {0}, {"{a}", "{b}"})
    \cup CommandFrames({"pong"}, {0}, {"{b}"})

NextWait ==
    \/ PeerSend("ra", WaitFrames)
    \/ LoopSteps("ra", {"ConnectionError", "Exception"})
    \/ HandlerEnds("ra", "return")
    \/ \E w \in Waiters : WaitCalls(w)

SpecWait == Init /\ [][NextWait]_vars

---------------------------------------------------------------------------
(* Two wait_for_cmd calls on the same reader, for different names *)

NextPair ==
    \/ PeerSend("ra", WaitFrames)
    \/ StartReadCommands("ra", TRUE)
    \/ ReadHeader("ra")
    \/ ReadPayload("ra")
    \/ HandlerEnds("ra", "return")
    \/ \E t \in BOOLEAN : WaitForCmd("w1", "ping", t)
    \/ \E t \in BOOLEAN : WaitForCmd("w2", "pong", t)
    \/ \E w \in Waiters :
           \/ WaitDelayElapses(w)
           \/ WaitPollWakes(w)
           \/ WaitGet(w)
           \/ WaitTimesOut(w)

SpecPair == Init /\ [][NextPair]_vars

---------------------------------------------------------------------------
(* wait_for_answer calls on a connection fed by a peer that sends answers *)

AnswerFrames ==
    CommandFrames({"answer"}, 0..MaxPeerId, {"{a}"})
    \cup CommandFrames({"answer"}, {0}, {"{b}"})
    \cup CommandFrames({"ping"}, {0}, {"{a}"})

NextAnswer ==
    \/ PeerSend("ra", AnswerFrames)
    \/ LoopSteps("ra", {"ConnectionError"})
    \/ HandlerEnds("ra", "return")
    \/ \E q \in Callers : AnswerCalls(q, {"ping"}, {"{a}"})

SpecAnswer == Init /\ [][NextAnswer]_vars

---------------------------------------------------------------------------
(* wait_for_answer calls on the connection to B, while the loop of a second
   connection of A reads what a foreign peer sends *)

NextCross ==
    \/ AnswerCalls("q1", {"ping"}, {"{a}"})
    \/ PeerSend("ra", CommandFrames({"answer"}, {0}, {"{a}"}))
    \/ PeerSend("rc", CommandFrames({"answer"}, 0..MaxPeerId, {"{b}"}))
    \/ \E r \in {"ra", "rc"} : LoopSteps(r, {"ConnectionError"})

SpecCross == Init /\ [][NextCross]_vars

---------------------------------------------------------------------------
(* Services A and B end to end: A asks, the handle_ping of B answers *)

NextE2E ==
    \/ \E r \in Linked : ReaderLoop(r, {"{a}", "{b}"})
    \/ \E q \in Callers : AnswerCalls(q, {"ping"}, {"{a}"})

SpecE2E == Init /\ [][NextE2E]_vars

---------------------------------------------------------------------------
(* Outbound commands of service A: send_cmd and wait_for_answer calls *)

NextSend ==
    \/ \E k \in Senders : SendCalls(k, {"ping"}, {"{a}"})
    \/ \E q \in Callers : AnswerCalls(q, {"ping"}, {"{a}"})

SpecSend == Init /\ [][NextSend]_vars

---------------------------------------------------------------------------
(* The Reader Loop of A, started with or without a writer *)

NextOneWay ==
    \/ PeerSend("ra", PeerFrames)
    \/ StartReadCommands("ra", FALSE)
    \/ ReaderLoop("ra", {"{a}"})

SpecOneWay == Init /\ [][NextOneWay]_vars

---------------------------------------------------------------------------
(* wait_for_cmd calls on a silent connection: the loop runs, or is about *)
(* to run, and no frame ever comes.  The timer of async_timeout fires and *)
(* asyncio.sleep ends: the event loop runs them.                          *)

NextSilent ==
    \/ StartReadCommands("ra", TRUE)
    \/ \E w \in Waiters :
          \/ \E n \in WaitNames, t \in BOOLEAN : WaitForCmd(w, n, t)
          \/ WaitDelayElapses(w)
          \/ WaitPollWakes(w)
          \/ WaitTimesOut(w)

SpecSilent ==
    /\ Init /\ [][NextSilent]_vars
    /\ \A w \in Waiters : WF_vars(WaitTimesOut(w))
    /\ \A w \in Waiters : WF_vars(WaitPollWakes(w))

---------------------------------------------------------------------------
(* What the loop of r has read so far *)

\* the frames the loop of r has consumed, in wire order
Consumed(r) == SubSeq(wire[r], 1, rd[r])

Opens(f) == GetContent(f.flag, f) = "ok"

RECURSIVE HandledOf(_, _)
\* the commands among frames that process_command hands to a handler of s
HandledOf(s, frames) ==
    IF frames = << >> THEN << >>
    ELSE LET f == Head(frames)
             c == QueueCmd(f.obj.name, f.obj.id, f.obj.args)
             rest == HandledOf(s, Tail(frames))
         IN IF Opens(f) /\ ValidCommand(f.obj) /\ f.obj.name # "answer"
               /\ HasHandler(s, f.obj.name)
            THEN << c >> \o rest
            ELSE rest

\* a 3-tuple (string, integer, mapping with string keys)
WellFormed(o) ==
    /\ o.isTuple /\ o.len = 3
    /\ o.t0 = "str" /\ o.t1 = "int" /\ o.t2 = "dict" /\ o.keysStr

---------------------------------------------------------------------------
(* Claims on the Reader Loop, under Spec *)

\* C6: the handlers of a connection are invoked in the order in which their
\* frames arrived on the wire, and while a handler is being awaited the
\* loop is inside its dispatch: it reads no header and no payload.
C6_DispatchInWireOrder ==
    /\ invoked["ra"] = HandledOf("A", Consumed("ra"))
    /\ hnd["ra"].active => pc["ra"] = "handler"

C6_Witness ==
    /\ Len(invoked["ra"]) = 2
    /\ invoked["ra"][1] # invoked["ra"][2]
    /\ pc["ra"] = "handler"

\* C7 (as claimed): a frame whose envelope fails to open, for whatever
\* reason, costs one error_read call and nothing else: no exception leaves
\* read_commands and the loop goes on with the next header.
C7_OpenFailureIsNotFatal ==
    [][ (pc["ra"] = "payload" /\ rd'["ra"] = rd["ra"] + 1
         /\ ~Opens(wire["ra"][rd["ra"] + 1]))
        => /\ pc'["ra"] = "header"
           /\ error_read'["A"] = error_read["A"] + 1
           /\ put_log' = put_log /\ invoked' = invoked /\ answers' = answers
      ]_vars

\* C8 (as claimed): once the loop task has been cancelled, whether in a
\* read or while a handler runs, the loop has stopped and the close
\* sentinel is the last item it put on the queue.
C8_CancellationStopsLoop ==
    cancelled["ra"] =>
        /\ pc["ra"] = "stopped"
        /\ put_log["ra"] # << >>
        /\ put_log["ra"][Len(put_log["ra"])] = QueueNone

\* C9 (as claimed): every failure of the header read puts the close
\* sentinel, stops the loop, and calls error_read unless it is a
\* cancellation.
C9_HeaderFailureCloses ==
    [][ \A exc \in ReadFailures :
          ReadHeaderFails("ra", exc)
          => /\ pc'["ra"] = "stopped"
             /\ put_log'["ra"] = Append(put_log["ra"], QueueNone)
             /\ error_read'["A"] = error_read["A"]
                    + (IF exc = "CancelledError" THEN 0 ELSE 1)
      ]_vars

\* C10: an unpickled object that is not a 3-tuple (string, integer, mapping
\* with string keys) is not enqueued, not dispatched, not stored as an
\* answer and calls no hook; the loop goes on with the next header.
C10_ShapeRejection ==
    [][ (pc["ra"] = "payload" /\ rd'["ra"] = rd["ra"] + 1
         /\ Opens(wire["ra"][rd["ra"] + 1])
         /\ ~WellFormed(wire["ra"][rd["ra"] + 1].obj))
        => /\ pc'["ra"] = "header"
           /\ commands' = commands /\ put_log' = put_log
           /\ hnd' = hnd /\ invoked' = invoked
           /\ answers' = answers
           /\ error_read' = error_read
      ]_vars

C10_Witness ==
    /\ rd["ra"] = 2
    /\ Opens(wire["ra"][1]) /\ ~WellFormed(wire["ra"][1].obj)
    /\ ~wire["ra"][1].obj.keysStr /\ wire["ra"][1].obj.t2 = "dict"
    /\ Opens(wire["ra"][2]) /\ WellFormed(wire["ra"][2].obj)
    /\ Len(put_log["ra"]) = 1

---------------------------------------------------------------------------
(* Claims on wait_for_answer *)

Done(q) == caller[q].pc = "done"

\* C1 (as claimed), under SpecAnswer: when the loop stores an answer with
\* the id of a pending wait_for_answer call before the timeout of the call
\* has elapsed, the call returns the arguments of that answer.
C1_AnswerBeforeTimeoutIsReturned ==
    \A q \in Callers :
        (Done(q) /\ caller[q].early # NoAnswer)
        => caller[q].res = caller[q].early

Healthy(r) == pc[r] \notin {"stopped", "escaped"}

\* the answers B has written for the request with this id
AnswersTo(id) ==
    { i \in 1..Len(wire["ra"]) :
          /\ wire["ra"][i].obj.name = "answer"
          /\ wire["ra"][i].obj.id = id }

---------------------------------------------------------------------------
(* Claims on wait_for_cmd, under SpecWait *)

SentinelPut(r) == \E i \in 1..Len(put_log[r]) : put_log[r][i].isNone

\* C3 (as claimed): once the close sentinel has been put on the queue, no
\* call of wait_for_cmd waiting on that queue is left blocked for ever: a
\* call without timeout that was waiting while the sentinel was in the queue
\* is not left waiting on an empty queue of a loop that has ended.
C3_NoWaiterLeftBlocked ==
    \A w \in Waiters :
        ~ /\ SentinelPut("ra")
          /\ waiter[w].missed
          /\ pc["ra"] = "stopped"
          /\ commands["ra"].items = << >>
          /\ waiter[w].pc = "get"
          /\ ~waiter[w].timed

TookSentinel(w) ==
    /\ waiter[w].taken # << >>
    /\ waiter[w].taken[Len(waiter[w].taken)].isNone

\* C4 (as claimed): a call of wait_for_cmd that takes the close sentinel
\* from the queue returns (False, {}).
C4_SentinelReturnsFalse ==
    \A w \in Waiters :
        TookSentinel(w) => waiter[w].res = "(False, {})"

Awaited(w, item) ==
    ~item.isNone /\ (waiter[w].name = "*" \/ item.name = waiter[w].name)

---------------------------------------------------------------------------
(* Claims on the dispatch, under Spec *)

\* C11: when an awaited handler raises an exception other than a
\* cancellation, process_command catches it: read_commands is back at the
\* header of the next frame, no close sentinel is put on the queue,
\* nothing is written to the remote side and no hook is called.
C11_HandlerExceptionIsContained ==
    [][ HandlerEnds("ra", "Exception")
        => /\ pc'["ra"] = "header"
           /\ put_log' = put_log /\ commands' = commands
           /\ wire' = wire
           /\ error_read' = error_read /\ error_write' = error_write
      ]_vars

\* the handler of the first frame raised, the second frame is dispatched
C11_Witness ==
    /\ faulted["ra"] /\ ~cancelled["ra"]
    /\ Len(invoked["ra"]) = 2 /\ pc["ra"] = "handler"
    /\ ~SentinelPut("ra")
    /\ wire["rb"] = << >>

\* the frame the loop of "ra" is about to open holds a valid command
NextCommand(name) ==
    /\ pc["ra"] = "payload"
    /\ Opens(wire["ra"][rd["ra"] + 1])
    /\ WellFormed(wire["ra"][rd["ra"] + 1].obj)
    /\ wire["ra"][rd["ra"] + 1].obj.name = name

\* C12 (under SpecAnswer): a valid command named "answer" is stored in
\* self.answers under its id, over whatever was pending for that id, and
\* no handler is invoked for it, although a parent of service A has a
\* handle_answer method.
C12_AnswerIsStoredNotHandled ==
    [][ /\ (NextCommand("answer") /\ rd'["ra"] = rd["ra"] + 1)
           => LET cmd == wire["ra"][rd["ra"] + 1].obj
              IN /\ answers'["A"] = [answers["A"] EXCEPT ![cmd.id] = cmd.args]
                 /\ invoked' = invoked /\ hnd' = hnd
                 /\ pc'["ra"] = "header"
        /\ \A i \in 1..Len(invoked'["ra"]) : invoked'["ra"][i].name # "answer"
      ]_vars

\* two answers with the same id: the second has replaced the first
C12_Witness ==
    /\ rd["ra"] = 2
    /\ \A i \in 1..2 : /\ wire["ra"][i].obj.name = "answer"
                       /\ wire["ra"][i].obj.id = 0
    /\ wire["ra"][1].obj.args = "{a}" /\ wire["ra"][2].obj.args = "{b}"
    /\ answers["A"][0] = "{b}"
    /\ \A q \in Callers : caller[q].pc = "idle"
    /\ HasHandler("A", "answer")

\* some service of the chain of s, s or an ancestor, has handle_<name>
InChain(s, name) ==
    \E level \in 1..Len(ServiceChain(s)) : name \in ServiceChain(s)[level]

\* C13: a valid command, not an answer, is handed to a handler exactly when
\* the service or one of its ancestors has one (the lookup goes up the
\* whole chain); when none has, the command is dropped: no handler runs,
\* nothing escapes read_commands, which is back at the next header,
\* nothing is written to the remote side and no hook is called.
C13_UnknownCommandIsDropped ==
    [][ \A name \in {"ping", "lost"} :
          (NextCommand(name) /\ rd'["ra"] = rd["ra"] + 1)
          => IF InChain("A", name)
             THEN /\ Len(invoked'["ra"]) = Len(invoked["ra"]) + 1
                  /\ pc'["ra"] = "handler"
             ELSE /\ invoked' = invoked /\ hnd' = hnd
                  /\ pc'["ra"] = "header"
                  /\ wire' = wire
                  /\ error_read' = error_read /\ error_write' = error_write
      ]_vars

\* an unknown command was dropped, the next command is with its handler,
\* which only a parent of A has
C13_Witness ==
    /\ rd["ra"] = 2
    /\ wire["ra"][1] = Frame(SIGNED, TRUE, "ok", CmdObj("lost", 0, "{a}"))
    /\ ~InChain("A", "lost")
    /\ invoked["ra"] = << QueueCmd("ping", 1, "{a}") >>
    /\ "ping" \notin ServiceChain("A")[1]
    /\ pc["ra"] = "handler"

---------------------------------------------------------------------------
(* Claims on the suspension points of wait_for_cmd, under SpecWait *)

\* C14 (as claimed): a wait_for_cmd call whose task is cancelled, while it
\* polls for the queue or while it waits on the queue, ends with
\* (False, {}): CancelledError never leaves the call.
C14_CancelledWaitReturnsFalse ==
    \A w \in Waiters : waiter[w].res # "CancelledError"

---------------------------------------------------------------------------
(* Claims on send_cmd, under SpecSend *)

Sent(k) == sender[k].pc # "idle"

\* C15 (as claimed): a send_cmd call that fails with a connection failure
\* or a cancellation calls error_write and raises nothing; a call that
\* fails in any other way, a serialization error included, calls
\* error_write and raises.
C15_SendFailureCallsHook ==
    \A k \in Senders :
        (Sent(k) /\ sender[k].outcome # "ok")
        => /\ sender[k].hooked
           /\ sender[k].pc = "raised"
                  <=> sender[k].outcome
                          \notin {"ConnectionError", "CancelledError"}

---------------------------------------------------------------------------
(* Claims on the header of a frame, under Spec *)

\* C16: on a frame whose mode byte is not 1, 2, 4 or 6 read_commands puts
\* the close sentinel on the queue, calls error_read once and stops: the
\* payload of the frame is not read, no command of the frame is put on the
\* queue, stored or handed to a handler, and a loop that has stopped reads
\* and dispatches nothing more.
C16_InvalidModeClosesLoop ==
    [][ /\ (/\ ReadHeader("ra")
            /\ wire["ra"][rd["ra"] + 1].flag \notin {1, 2, 4, 6})
           => /\ put_log'["ra"] = Append(put_log["ra"], QueueNone)
              /\ error_read'["A"] = error_read["A"] + 1
              /\ pc'["ra"] = "stopped"
              /\ rd' = rd
              /\ invoked' = invoked /\ hnd' = hnd /\ answers' = answers
        /\ pc["ra"] = "stopped"
           => /\ pc'["ra"] = "stopped" /\ rd' = rd
              /\ put_log' = put_log /\ invoked' = invoked
              /\ answers' = answers
      ]_vars

\* a valid command was dispatched, then a frame of mode 3 closed the loop
C16_Witness ==
    /\ Len(wire["ra"]) = 2 /\ wire["ra"][2].flag = 3
    /\ rd["ra"] = 1 /\ pc["ra"] = "stopped" /\ mode["ra"] = 3
    /\ put_log["ra"] = << QueueCmd("ping", 0, "{a}"), QueueNone >>
    /\ error_read["A"] = 1
    /\ Len(invoked["ra"]) = 1

\* the send_cmd calls made so far without an id of their own
Implicit == {k \in Senders : Sent(k) /\ ~sender[k].explicit}

\* the wait_for_answer calls made so far
Asked == {q \in Callers : caller[q].pc # "idle"}

\* C17: the counter of service A starts at 0 and has been advanced once by
\* every send_cmd call without an explicit id and by every wait_for_answer
\* call, and by nothing else (a send_cmd with an explicit id leaves it
\* alone); the ids these calls were given are 0, 1, 2, ... up to the
\* counter, each given once, in the order of the calls.
C17_IdsAreConsecutive ==
    /\ cmd_id["A"] = Cardinality(Implicit) + Cardinality(Asked)
    /\ {sender[k].id : k \in Implicit} \cup {caller[q].id : q \in Asked}
           = 0..(cmd_id["A"] - 1)
    /\ \A k \in Implicit, q \in Asked : sender[k].id # caller[q].id
    /\ \A k1, k2 \in Implicit : k1 # k2 => sender[k1].id # sender[k2].id
    /\ \A q1, q2 \in Asked : q1 # q2 => caller[q1].id # caller[q2].id

\* three ids handed out, and a send_cmd with an explicit id beside them
C17_Witness ==
    /\ cmd_id["A"] = 3
    /\ sender["k1"].explicit /\ Sent("k1") /\ sender["k1"].id = 1
    /\ Implicit = {"k2"} /\ Asked = Callers
    /\ sender["k2"].id = 1 /\ caller["q1"].id = 2 /\ caller["q2"].id = 0

---------------------------------------------------------------------------
(* Claims on the table of answers, under SpecAnswer *)

\* the call q returns in this step
Returns(q) == caller[q].pc # "done" /\ caller'[q].pc = "done"

\* C18: an entry of self.answers leaves the table only in the step in which
\* a wait_for_answer call returns it, that call is the one that was given
\* the id of the entry, and no other call returns in that step; a call
\* that returns an answer returns the entry stored under its own id and
\* removes it in the same step.
C18_AnswerReturnedOnce ==
    [][ /\ \A i \in DOMAIN answers["A"] :
              (answers["A"][i] # NoAnswer /\ answers'["A"][i] = NoAnswer)
              => \E q \in Callers :
                    /\ caller[q].id = i /\ Returns(q)
                    /\ caller'[q].res = answers["A"][i]
                    /\ \A p \in Callers \ {q} : caller'[p] = caller[p]
        /\ \A q \in Callers :
              (Returns(q) /\ caller'[q].res # PyNone)
              => /\ caller'[q].res = answers["A"][caller[q].id]
                 /\ answers'["A"][caller[q].id] = NoAnswer
                 /\ \A i \in DOMAIN answers["A"] \ {caller[q].id} :
                        answers'["A"][i] = answers["A"][i]
      ]_vars

\* both calls have returned, each the answer stored under its own id, and
\* the table is empty again
C18_Witness ==
    /\ \A q \in Callers : caller[q].pc = "done" /\ caller[q].res = "{a}"
    /\ caller["q1"].id # caller["q2"].id
    /\ rd["ra"] = 2
    /\ \A i \in DOMAIN answers["A"] : answers["A"][i] = NoAnswer

---------------------------------------------------------------------------
(* Claims on answer(), under SpecOneWay *)

\* C19 (as claimed): answer(origin, args) with an origin that has no
\* writer sends nothing and completes normally: no write is attempted, so
\* error_write is not called, and no exception reaches the handler.
C19_AnswerWithoutWriterIsQuiet ==
    (hnd["ra"].answered /\ ~has_writer["ra"])
    => /\ ~hnd["ra"].raised
       /\ error_write["A"] = 0

---------------------------------------------------------------------------
(* Claims on the polling loop of wait_for_cmd, under SpecWait *)

Polling(w) == waiter[w].pc = "poll"

\* C20 (as claimed): a wait_for_cmd call with a finite timeout returns
\* (None, {}) when no queue of the reader came into existence while the
\* timeout ran, and only then (a cancelled call apart).
C20_NoneIffNoQueueInTime ==
    \A w \in Waiters :
        /\ (waiter[w].noq /\ ~Polling(w) /\ waiter[w].res # "CancelledError")
               => waiter[w].res = "(None, {})"
        /\ waiter[w].res = "(None, {})" => waiter[w].timed /\ waiter[w].noq

\* C20 (amended): a wait_for_cmd call with a finite timeout returns
\* (None, {}) exactly when it finds no queue of the reader at a lookup it
\* makes once the timeout has elapsed, and then no queue has existed while
\* the timeout ran; the call goes on to the queue only at a lookup that
\* finds one, be it after the timeout.
C20_NoneIffNoQueueAtLookup ==
    [][ \A w \in Waiters :
          /\ (waiter'[w].res = "(None, {})" /\ waiter[w].res # "(None, {})")
             => /\ Polling(w) /\ waiter[w].timed /\ waiter[w].late
                /\ ~commands["ra"].exists
                /\ waiter[w].noq
          /\ (/\ Polling(w) /\ waiter[w].timed /\ waiter[w].late
              /\ ~commands["ra"].exists /\ waiter'[w] # waiter[w])
             => waiter'[w].res \in {"(None, {})", "CancelledError"}
          /\ (Polling(w) /\ waiter'[w].pc = "get") => commands["ra"].exists
      ]_vars

\* a call has returned (None, {}); the queue was created afterwards
C20_Witness ==
    /\ waiter["w1"].res = "(None, {})" /\ waiter["w1"].pc = "done"
    /\ waiter["w1"].timed /\ waiter["w1"].noq
    /\ commands["ra"].exists

---------------------------------------------------------------------------
(* Claims on the timeout of wait_for_cmd, under SpecSilent *)

---------------------------------------------------------------------------
(* Claims on the duration of wait_for_cmd, under SpecTimed *)

---------------------------------------------------------------------------
(* Claims on the framing, under SpecFrames *)

RECURSIVE TotalSize(_)
\* the bytes of frames with a header of nine bytes each
TotalSize(frames) ==
    IF frames = << >> THEN 0
    ELSE 9 + Len(Head(frames).data) + TotalSize(Tail(frames))

\* C23: every frame send_cmd writes is a header of 9 bytes, whose first
\* byte is the value of the mode and whose other eight hold the number of
\* payload bytes (0 included), followed by the payload; the loop reading
\* the concatenation of the frames recovers the same modes and payloads in
\* the same order, each payload with the mode of its own frame, and never
\* meets an invalid header.
C23_FramesRoundTrip ==
    /\ Len(pipe.out) = TotalSize(pipe.sent)
    /\ Len(pipe.got) <= Len(pipe.sent)
    /\ pipe.got = SubSeq(pipe.sent, 1, Len(pipe.got))
    /\ pipe.pc # "stopped"
    /\ (pipe.pos = Len(pipe.out) /\ pipe.pc = "header")
           => pipe.got = pipe.sent
    /\ pipe.pc = "payload"
           => /\ pipe.flag = pipe.sent[Len(pipe.got) + 1].mode
              /\ pipe.size = Len(pipe.sent[Len(pipe.got) + 1].data)
    /\ \A m \in {1, 2, 4, 6}, n \in {0, 1, 255, 256, 65535, 16777216} :
           /\ Len(PackHeader(m, n)) = 9
           /\ PackHeader(m, n)[1] = m
           /\ UnpackHeader(PackHeader(m, n)) = [flag |-> m, size |-> n]

\* two frames of different modes, the first with an empty payload, were
\* written and read back
C23_Witness ==
    /\ Len(pipe.sent) = 2 /\ pipe.got = pipe.sent
    /\ pipe.sent[1].data = << >> /\ pipe.sent[2].data = << 1, 0, 9 >>
    /\ pipe.sent[1].mode = 6 /\ pipe.sent[2].mode = 1
    /\ pipe.pos = Len(pipe.out) /\ pipe.pc = "header"

---------------------------------------------------------------------------
(* Claims on the lifetime of a queue, under Spec *)

\* C24 (as claimed): the queue of a reader lives as long as the loop of
\* that reader: once read_commands has stopped, self.commands holds no
\* queue for the reader.
C24_QueueGoesWithLoop ==
    \A r \in Readers : pc[r] = "stopped" => ~commands[r].exists

---------------------------------------------------------------------------
(* Claims on the secret key, under SpecSecret *)

HasKey(s) == secret.key[s] \notin {"None", ""}

\* C25: once read_secret_key of a service has obtained a non-empty key,
\* later calls do not query the keyring and do not change the key,
\* whatever the keyring holds by then; MessageMode.setup is called at most
\* once per service, with the key the service holds, never with None or
\* an empty key.
C25_KeyIsLoadedOnce ==
    /\ [](\A s \in Services :
            /\ Len(secret.setups[s]) <= 1
            /\ \A i \in 1..Len(secret.setups[s]) :
                   secret.setups[s][i] \notin {"None", ""}
            /\ HasKey(s) <=> secret.setups[s] = << secret.key[s] >>)
    /\ [][ \A s \in Services :
             HasKey(s) => /\ secret'.key[s] = secret.key[s]
                          /\ secret'.queries[s] = secret.queries[s]
                          /\ secret'.setups[s] = secret.setups[s]
         ]_vars

\* service A failed once on an empty keyring, then got its key; it was
\* called again after the keyring had changed and kept the key
C25_Witness ==
    /\ secret.key["A"] = "k1" /\ secret.store = "k2"
    /\ secret.reads["A"] = 3 /\ secret.queries["A"] = 2
    /\ secret.setups["A"] = << "k1" >>
    /\ secret.key["B"] = "k2"

---------------------------------------------------------------------------
(* Claims on Direction.from_name, under SpecDirection *)

\* C26 (as claimed): from_name resolves the value of each of the ten
\* directions, in any case, to that direction, and raises ValueError only
\* for a name that is neither the value nor an alias of a direction.
C26_FromNameResolvesValues ==
    asked.pc = "done"
    => /\ \A d \in DOMAIN DirectionValue :
              asked.name.text = DirectionValue[d] => asked.res = d
       /\ asked.res = "ValueError"
              => asked.name.text \in {"", "x", "invalid", "north-west"}

---------------------------------------------------------------------------
(* Claims on the queue of the Reader Loop, under Spec *)

RECURSIVE ArrivedOf(_)
\* the well-formed commands among frames, in the order of the frames
ArrivedOf(frames) ==
    IF frames = << >> THEN << >>
    ELSE LET f == Head(frames)
             c == QueueCmd(f.obj.name, f.obj.id, f.obj.args)
         IN IF Opens(f) /\ WellFormed(f.obj)
            THEN << c >> \o ArrivedOf(Tail(frames))
            ELSE ArrivedOf(Tail(frames))

RECURSIVE CommandsOf(_)
\* the items of a queue history that are commands, not the close sentinel
CommandsOf(items) ==
    IF items = << >> THEN << >>
    ELSE IF Head(items) = QueueNone THEN CommandsOf(Tail(items))
    ELSE << Head(items) >> \o CommandsOf(Tail(items))

\* C27: the commands put on the queue of a connection are exactly the
\* well-formed commands that arrived ("answer" included), once each and
\* in wire order; and a command is on the queue by the time its handler
\* is invoked or its answer stored.
C27_QueueOrderIsArrivalOrder ==
    /\ [](CommandsOf(put_log["ra"]) = ArrivedOf(Consumed("ra")))
    /\ [][ (invoked'["ra"] # invoked["ra"] \/ answers'["A"] # answers["A"])
           => /\ Len(put_log'["ra"]) = Len(put_log["ra"]) + 1
              /\ LET c == put_log'["ra"][Len(put_log'["ra"])]
                 IN IF c.name = "answer"
                    THEN answers'["A"][c.id] = c.args
                    ELSE invoked'["ra"] = Append(invoked["ra"], c)
         ]_vars

C27_Witness ==
    /\ Len(put_log["ra"]) = 2
    /\ put_log["ra"][1].name = "answer"
    /\ put_log["ra"][2].name = "ping"
    /\ invoked["ra"] = << put_log["ra"][2] >>
    /\ rd["ra"] = 2

RECURSIVE Sentinels(_)
\* how many times the close sentinel occurs among items
Sentinels(items) ==
    IF items = << >> THEN 0
    ELSE (IF Head(items) = QueueNone THEN 1 ELSE 0) + Sentinels(Tail(items))

\* C28 (as claimed): when the loop has stopped, by a return or by an
\* exception, the close sentinel has been put exactly once; and once the
\* sentinel is on the queue it is the last item put, the loop has stopped
\* and no handler is running.
C28_SentinelIsTerminal ==
    /\ pc["ra"] \in {"stopped", "escaped"} => Sentinels(put_log["ra"]) = 1
    /\ Sentinels(put_log["ra"]) > 0
       => /\ Sentinels(put_log["ra"]) = 1
          /\ put_log["ra"][Len(put_log["ra"])] = QueueNone
          /\ pc["ra"] = "stopped"
          /\ ~hnd["ra"].active

---------------------------------------------------------------------------
(* Claims on concurrent wait_for_cmd calls, under SpecPair *)

\* C29 (as claimed): with one call waiting for "ping" and another for
\* "pong" on the same reader, a call takes from the queue no command but
\* the one it returns, and a call that has returned (True, args) returned
\* the arguments of a command of its own name.
C29_WaitersDoNotInterfere ==
    (waiter["w1"].pc # "idle" /\ waiter["w2"].pc # "idle")
    => \A w \in Waiters :
          LET t == waiter[w].taken
          IN /\ \A i \in 1..Len(t) :
                    ~t[i].isNone
                    => /\ t[i].name = waiter[w].name
                       /\ waiter[w].res = "(True, args)"
                       /\ waiter[w].args = t[i].args
             /\ waiter[w].res = "(True, args)"
                    => /\ t # << >>
                       /\ t[Len(t)].name = waiter[w].name

---------------------------------------------------------------------------
(* Claims on the table when wait_for_answer gives up, under SpecAnswer *)

\* C30 (as claimed): in the step in which a wait_for_answer call returns
\* None, the table self.answers holds no entry under the id of the call.
C30_NoneLeavesNoEntry ==
    [][ \A q \in Callers :
          (Returns(q) /\ caller'[q].res = PyNone)
          => Pop(answers'["A"], caller[q].id) = PyNone
      ]_vars

---------------------------------------------------------------------------
(* Claims on the connection an answer came from, under SpecCross *)

\* an "answer" command with this id and these arguments has been read by
\* the loop of reader r
AnswerReadOn(r, id, args) ==
    \E i \in 1..rd[r] :
        LET f == wire[r][i]
        IN /\ Opens(f) /\ WellFormed(f.obj)
           /\ f.obj.name = "answer" /\ f.obj.id = id /\ f.obj.args = args

\* C31 (as claimed): an answer that wait_for_answer returns was read on
\* the connection the request was sent to (reader "ra"), not on another
\* connection of the service.
C31_AnswerFromOwnConnection ==
    \A q \in Callers :
        (Done(q) /\ caller[q].res \notin {PyNone, NoAnswer})
        => AnswerReadOn("ra", caller[q].id, caller[q].res)

---------------------------------------------------------------------------
(* Claims on concurrent send_cmd calls, under SpecWriters *)

RECURSIVE BytesOf(_)
\* the bytes of frames: each header followed by its payload
BytesOf(frames) ==
    IF frames = << >> THEN << >>
    ELSE PackHeader(Head(frames).mode, Len(Head(frames).data))
         \o Head(frames).data \o BytesOf(Tail(frames))

\* C32: with send_cmd calls pending on the same writer, the bytes handed
\* to the writer are always a concatenation of whole frames, header then
\* payload, which the reader at the other end takes apart into the frames
\* written; every step that hands bytes to the writer hands one whole
\* frame, in the step in which one call reaches its drain.
C32_FramesAreNotInterleaved ==
    /\ [](/\ pipe.out = BytesOf(pipe.sent)
          /\ pipe.pc # "stopped"
          /\ pipe.got = SubSeq(pipe.sent, 1, Len(pipe.got)))
    /\ [][ pipe'.out # pipe.out
           => \E k \in Senders :
                 /\ sender[k].pc = "idle" /\ sender'[k].pc = "drain"
                 /\ \A j \in Senders \ {k} : sender'[j] = sender[j]
                 /\ Len(pipe'.sent) = Len(pipe.sent) + 1
                 /\ pipe'.out = pipe.out \o BytesOf(<< pipe'.sent[
                                                     Len(pipe'.sent)] >>)
         ]_vars

\* two calls are at their drain at once, each with its frame written, and
\* the reader has recovered both frames
C32_Witness ==
    /\ \A k \in Senders : sender[k].pc = "drain"
    /\ Len(pipe.sent) = 2
    /\ pipe.sent[1].data = << 1, 0, 9 >> /\ pipe.sent[2].data = << 0, 6 >>
    /\ pipe.got = pipe.sent

====
